---- MODULE Spec2Model ----
(***************************************************************************)
(* A model of the tagged-template parser of src/src/template.ts.           *)
(*                                                                         *)
(* A JavaScript string is a sequence of one-character strings; string      *)
(* positions are 0-based as in the source (At, Slice).  A JavaScript value *)
(* is a record [type, str, obj]: str is the result of String(value) and    *)
(* obj the value's own enumerable properties, in order, as <<key, value>>  *)
(* pairs.  The parse tree is a heap of ParseElement records (nodes); an    *)
(* element is referred to by its index in the heap, as the source refers   *)
(* to it by reference.                                                     *)
(***************************************************************************)
EXTENDS Integers, Sequences, FiniteSets, TLC

VARIABLES
    input,        \* the pieces the template literal was written from
    spans,        \* spans.raw: the literal fragments
    expressions,  \* the substitution values
    nodes,        \* the heap of ParseElement objects
    current,      \* parse: current (index in nodes)
    stack,        \* parse: stack (indices in nodes)
    matcher,      \* parse: matcher (the name of the regular expression)
    lineStart,    \* parse: lineStart
    propName,     \* parse: propName
    propValue,    \* parse: propValue
    s,            \* parse: index of the outer loop
    i,            \* parse: index of the inner loop
    expressing,   \* parse: expressing
    pc,           \* the position in parse/template
    error,        \* the kind of the SyntaxError thrown, "" when none
    result        \* what template returns: <<>> before, <<element>> after

vars == <<input, spans, expressions, nodes, current, stack, matcher, lineStart,
          propName, propValue, s, i, expressing, pc, error, result>>

----------------------------------------------------------------------------
(* Strings *)

Whitespace == {" ", "\n", "\r", "\t"}

IdentChars ==
    {"a", "b", "c", "d", "e", "f", "g", "h", "i", "j", "k", "l", "m",
     "n", "o", "p", "q", "r", "s", "t", "u", "v", "w", "x", "y", "z",
     "A", "B", "C", "D", "E", "F", "G", "H", "I", "J", "K", "L", "M",
     "N", "O", "P", "Q", "R", "S", "T", "U", "V", "W", "X", "Y", "Z",
     "0", "1", "2", "3", "4", "5", "6", "7", "8", "9", "_", "-", "$"}

\* str[p], "" standing for undefined
At(str, p) == IF p >= 0 /\ p < Len(str) THEN str[p + 1] ELSE ""

\* str.slice(a, b) for 0 <= a, b
Slice(str, a, b) == IF a < b THEN SubSeq(str, a + 1, IF b < Len(str) THEN b ELSE Len(str)) ELSE <<>>

\* whether the characters of pat occur in str at position p
StartsWith(str, p, pat) ==
    /\ p + Len(pat) <= Len(str)
    /\ \A k \in 1..Len(pat) : str[p + k] = pat[k]

\* the end of the longest run of characters of class cls that starts at p
SkipClass(str, p, cls) ==
    IF p >= Len(str) THEN Len(str)
    ELSE CHOOSE q \in p..Len(str) :
            /\ \A r \in p..(q - 1) : At(str, r) \in cls
            /\ (q = Len(str) \/ At(str, q) \notin cls)

SkipWs(str, p) == SkipClass(str, p, Whitespace)

SkipIdent(str, p) == SkipClass(str, p, IdentChars)

Min(S) == CHOOSE m \in S : \A n \in S : m <= n

\* str.replace(/^\s*/, "")
TrimStart(str) == Slice(str, SkipWs(str, 0), Len(str))

\* str.replace(/\s*$/, "")
TrimEnd(str) ==
    IF \A k \in 1..Len(str) : str[k] \in Whitespace THEN <<>>
    ELSE LET last == CHOOSE k \in 1..Len(str) :
                        /\ str[k] \notin Whitespace
                        /\ \A j \in (k + 1)..Len(str) : str[j] \in Whitespace
         IN  SubSeq(str, 1, last)

\* str.slice(0, -1)
DropLast(str) == IF Len(str) = 0 THEN <<>> ELSE SubSeq(str, 1, Len(str) - 1)

\* str.replace(/\\(.?)/g, "$1"): a backslash is dropped and the character after
\* it is kept as it is ("." does not match a line terminator, which is then
\* kept as well, by the scan going on after the backslash alone)
RECURSIVE Unescape(_)
Unescape(str) ==
    IF Len(str) = 0 THEN <<>>
    ELSE IF str[1] = "\\"
         THEN IF Len(str) >= 2
              THEN <<str[2]>> \o Unescape(SubSeq(str, 3, Len(str)))
              ELSE <<>>
         ELSE <<str[1]>> \o Unescape(Tail(str))

formatString(str) == Unescape(Slice(str, 1, Len(str) - 1))

----------------------------------------------------------------------------
(* JavaScript values *)

Str(chars) == [type |-> "string", str |-> chars, obj |-> <<>>]

Null == [type |-> "object", str |-> <<"n", "u", "l", "l">>, obj |-> <<>>]

True == [type |-> "boolean", str |-> <<"t", "r", "u", "e">>, obj |-> <<>>]

Func(name) == [type |-> "function", str |-> name, obj |-> <<>>]

Obj(pairs) ==
    [type |-> "object",
     str  |-> <<"[", "o", "b", "j", "e", "c", "t", " ", "O", "b", "j", "e", "c", "t", "]">>,
     obj  |-> pairs]

\* exp != null
NotNullish(v) == v # Null

\* typeof exp === "string" ? exp : String(exp)
StringOf(v) == v.str

HasKey(pairs, key) == \E k \in 1..Len(pairs) : pairs[k][1] = key

Get(pairs, key) == pairs[CHOOSE k \in 1..Len(pairs) : pairs[k][1] = key][2]

\* obj[key] = value: an own key keeps its place, a new key goes last
Put(pairs, key, value) ==
    IF HasKey(pairs, key)
    THEN [k \in 1..Len(pairs) |-> IF pairs[k][1] = key THEN <<key, value>> ELSE pairs[k]]
    ELSE Append(pairs, <<key, value>>)

RECURSIVE PutAll(_, _)
PutAll(pairs, more) ==
    IF Len(more) = 0 THEN pairs
    ELSE PutAll(Put(pairs, more[1][1], more[1][2]), Tail(more))

Digits == <<"0", "1", "2", "3", "4", "5", "6", "7", "8", "9">>

\* String(n) for an array index n
RECURSIVE IndexKey(_)
IndexKey(n) ==
    IF n < 10 THEN <<Digits[n + 1]>>
    ELSE IndexKey(n \div 10) \o <<Digits[(n % 10) + 1]>>

\* the own enumerable properties a spread copies: those of an object, the
\* indexed characters of a string, none of null, a boolean or a function
OwnPairs(v) ==
    IF v.type = "object" THEN v.obj
    ELSE IF v.type = "string"
         THEN [k \in 1..Len(v.str) |-> <<IndexKey(k - 1), Str(<<v.str[k]>>)>>]
         ELSE <<>>

SpreadEarlierWins(props, v) == Obj(PutAll(OwnPairs(v), OwnPairs(props)))

\* {...props, ...v}
Spread(props, v) == Obj(PutAll(OwnPairs(props), OwnPairs(v)))

\* {...props, ...{[name]: value}}
SetProp(props, name, value) == Spread(props, Obj(<<<<name, value>>>>))

----------------------------------------------------------------------------
(* The regular expressions.  Each Exec operator is matcher.exec(span) with *)
(* matcher.lastIndex = from: the leftmost match at or after from, found    *)
(* as the backtracking matcher finds it.  A match is a record with found,  *)
(* index (match.index), end (match.index + match[0].length) and the        *)
(* capture groups, <<>> standing for a group that did not take part.       *)

NoMatch ==
    [found |-> FALSE, index |-> 0, end |-> 0,
     g1 |-> <<>>, g2 |-> <<>>, g3 |-> <<>>, g4 |-> <<>>, g5 |-> <<>>]

MatchEmpty(index, end, g1, g2, g3, g4, g5) ==
    [found |-> TRUE, index |-> index, end |-> index,
     g1 |-> g1, g2 |-> g2, g3 |-> g3, g4 |-> g4, g5 |-> g5]

Match(index, end, g1, g2, g3, g4, g5) ==
    [found |-> TRUE, index |-> index, end |-> end,
     g1 |-> g1, g2 |-> g2, g3 |-> g3, g4 |-> g4, g5 |-> g5]

\* where [\S\s]*?(?:-->|$) ends when it starts at p
CommentEnd(str, p) ==
    LET ends == {q \in p..(Len(str) - 3) : StartsWith(str, q, <<"-", "-", ">">>)}
    IN  IF ends = {} THEN Len(str) ELSE Min(ends) + 3

\* CHILDREN_RE at position p, where str[p] is "\r", "\n" or "<"
ChildrenAt(str, p) ==
    IF At(str, p) \in {"\r", "\n"}
    THEN LET e == SkipWs(str, p + 1)
         IN  Match(p, e, Slice(str, p, e), <<>>, <<>>, <<>>, <<>>)
    ELSE IF StartsWith(str, p, <<"<", "!", "-", "-">>)
    THEN LET e == CommentEnd(str, p + 4)
         IN  Match(p, e, <<>>, Slice(str, p, e), <<>>, <<>>, <<>>)
    ELSE LET a == SkipWs(str, p + 1)
             b == IF At(str, a) # "/" THEN a
                  ELSE IF At(str, a + 1) # "/" THEN a + 1 ELSE a + 2
             c == SkipWs(str, b)
             e == SkipIdent(str, c)
         IN  Match(p, e, <<>>, <<>>, Slice(str, p, e), Slice(str, a, b), Slice(str, c, e))

\* CHILDREN_RE: g1 newline, g2 comment, g3 tag, g4 closing slash, g5 tag name
ChildrenExec(str, from) ==
    LET starts == {p \in from..(Len(str) - 1) : At(str, p) \in {"\r", "\n", "<"}}
    IN  IF starts = {} THEN NoMatch ELSE ChildrenAt(str, Min(starts))

\* where "(\\"|[\S\s])*?(?:"|$) ends when it starts at p, after the opening quote
RECURSIVE StringEnd(_, _, _)
StringEnd(str, p, quote) ==
    IF p >= Len(str) THEN Len(str)
    ELSE IF At(str, p) = quote THEN p + 1
    ELSE IF At(str, p) = "\\" /\ At(str, p + 1) = quote THEN StringEnd(str, p + 2, quote)
    ELSE StringEnd(str, p + 1, quote)

\* in PROPS_RE, after the prop name that starts at a: where \s*(=)? starts and
\* ends, where the optional string starts, and where the match ends
EqualsStart(str, a) == SkipWs(str, SkipIdent(str, a))

EqualsEnd(str, a) ==
    IF At(str, EqualsStart(str, a)) = "=" THEN EqualsStart(str, a) + 1 ELSE EqualsStart(str, a)

StringStart(str, a) == SkipWs(str, EqualsEnd(str, a))

PropEnd(str, a) ==
    IF At(str, StringStart(str, a)) \in {"\"", "'"}
    THEN StringEnd(str, StringStart(str, a) + 1, At(str, StringStart(str, a)))
    ELSE StringStart(str, a)

\* PROPS_RE tried at position p alone, a being where the leading \s* ends
PropsFrom(str, p, a) ==
    IF At(str, a) = ">"
    THEN Match(p, a + 1, <<">">>, <<>>, <<>>, <<>>, <<>>)
    ELSE IF At(str, a) = "/" /\ At(str, SkipWs(str, a + 1)) = ">"
    THEN Match(p, SkipWs(str, a + 1) + 1, Slice(str, a, SkipWs(str, a + 1) + 1),
               <<>>, <<>>, <<>>, <<>>)
    ELSE IF StartsWith(str, a, <<".", ".", ".">>)
    THEN Match(p, SkipWs(str, a + 3), <<>>, Slice(str, a, SkipWs(str, a + 3)),
               <<>>, <<>>, <<>>)
    ELSE IF At(str, a) \in IdentChars
    THEN Match(p, PropEnd(str, a), <<>>, <<>>,
               Slice(str, a, SkipIdent(str, a)),
               Slice(str, EqualsStart(str, a), EqualsEnd(str, a)),
               Slice(str, StringStart(str, a), PropEnd(str, a)))
    ELSE NoMatch

PropsAt(str, p) == PropsFrom(str, p, SkipWs(str, p))

\* PROPS_RE: g1 tag end, g2 spread, g3 prop name, g4 equals, g5 prop value string
PropsExec(str, from) ==
    LET starts == {p \in from..(Len(str) - 1) : PropsAt(str, p).found}
    IN  IF starts = {} THEN NoMatch ELSE PropsAt(str, Min(starts))

\* CLOSING_TAG_RE
ClosingTagExec(str, from) ==
    LET starts == {p \in from..(Len(str) - 1) : At(str, p) = ">"}
    IN  IF starts = {} THEN NoMatch
        ELSE Match(Min(starts), Min(starts) + 1, <<>>, <<>>, <<>>, <<>>, <<>>)

\* [^\\]?' or [^\\]?" tried at position p: 0 when it fails, else the length matched
ClosingQuoteAt(str, p, quote) ==
    IF At(str, p) \notin {"", "\\"} /\ At(str, p + 1) = quote THEN 2
    ELSE IF At(str, p) = quote THEN 1
    ELSE 0

\* CLOSING_SINGLE_QUOTE_RE and CLOSING_DOUBLE_QUOTE_RE
ClosingQuoteExec(str, from, quote) ==
    LET starts == {p \in from..(Len(str) - 1) : ClosingQuoteAt(str, p, quote) > 0}
    IN  IF starts = {} THEN NoMatch
        ELSE LET p == Min(starts)
             IN  Match(p, p + ClosingQuoteAt(str, p, quote), <<>>, <<>>, <<>>, <<>>, <<>>)

\* CLOSING_COMMENT_RE
ClosingCommentExec(str, from) ==
    LET starts == {p \in from..(Len(str) - 3) : StartsWith(str, p, <<"-", "-", ">">>)}
    IN  IF starts = {} THEN NoMatch
        ELSE Match(Min(starts), Min(starts) + 3, <<>>, <<>>, <<>>, <<>>, <<>>)

----------------------------------------------------------------------------
(* The parse tree *)

\* a ParseElement as parse creates it
Element(tag) == [tag |-> tag, props |-> Null, children |-> <<>>]

\* A child of a ParseElement: a ParseValue, or a reference to a ParseElement.
\* src is the place in the input the child was read from, <<fragment, offset>>,
\* a substitution value standing at the end of the fragment before it; the
\* source keeps no such field, the properties about input order read it.
ValueChild(value, src) == [type |-> "value", value |-> value, elem |-> 0, src |-> src]

ElementChild(id, src) == [type |-> "element", value |-> Null, elem |-> id, src |-> src]

PushFront(children, child) == <<child>> \o children

\* children.push(child)
Push(children, child) == Append(children, child)

\* element.children.push(child) on the heap
AddChild(heap, id, child) == [heap EXCEPT ![id].children = Push(@, child)]

\* element.children.push({type: "value", value: text}) when text is not empty
AddText(heap, id, text, src) ==
    IF text = <<>> THEN heap ELSE AddChild(heap, id, ValueChild(Str(text), src))

\* stack.pop(): the element popped, 0 standing for undefined
Top(stk) == IF Len(stk) = 0 THEN 0 ELSE stk[Len(stk)]

Pop(stk) == IF Len(stk) = 0 THEN stk ELSE SubSeq(stk, 1, Len(stk) - 1)

\* the fragment of the outer loop's iteration
span == spans[s + 1]

\* expressions[s]
exp == expressions[s + 1]

\* the value that follows the fragment, as a child
ExpChild == ValueChild(exp, <<s, Len(span)>>)

\* throw new SyntaxError(...): the parse is over, its locals are gone
Fail(kind) ==
    /\ pc' = "failed"
    /\ error' = kind
    /\ UNCHANGED <<input, spans, expressions, nodes, current, stack, matcher,
                   lineStart, propName, propValue, s, i, expressing, result>>

\* the inner loop's i = end and its test i < span.length
Advance(end) ==
    /\ i' = end
    /\ pc' = IF end < Len(span) THEN "scan" ELSE "spanEnd"
    /\ error' = error

\* what a value adds to a quoted prop where booleans are left out (lines 123
\* and 280), and where they are not (line 336)
QuotePiece(v) ==
    IF v.type # "boolean" /\ NotNullish(v) THEN StringOf(v) ELSE <<>>

QuotePieceOddballs(v) == IF NotNullish(v) THEN StringOf(v) ELSE <<>>

QuoteMatcher(quote) ==
    IF quote = "'" THEN "CLOSING_SINGLE_QUOTE_RE" ELSE "CLOSING_DOUBLE_QUOTE_RE"

QuoteMatchers == {"CLOSING_SINGLE_QUOTE_RE", "CLOSING_DOUBLE_QUOTE_RE"}

----------------------------------------------------------------------------
(* parse, step by step *)

\* The head of the outer loop: expressing, and an empty fragment before a value.
BeginSpan ==
    /\ pc = "span"
    /\ LET upcoming == s < Len(spans) - 1
           empty == upcoming /\ span = <<>>
       IN  /\ nodes' = IF empty /\ matcher = "CHILDREN_RE"
                        THEN AddChild(nodes, current, ExpChild) ELSE nodes
           /\ propValue' = IF empty /\ matcher \in QuoteMatchers
                            THEN propValue \o QuotePiece(exp) ELSE propValue
           /\ expressing' = IF empty /\ matcher \in QuoteMatchers \cup {"CHILDREN_RE"}
                             THEN FALSE ELSE upcoming
    /\ i' = 0
    /\ pc' = IF Len(span) > 0 THEN "scan" ELSE "spanEnd"
    /\ UNCHANGED <<input, spans, expressions, current, stack, matcher, lineStart,
                   propName, s, error, result>>

\* the text run before a match of CHILDREN_RE (lines 141 to 156)
Before(str, from, m, atLineStart) ==
    LET raw == Slice(str, from, m.index)
        cut == IF atLineStart THEN TrimStart(raw) ELSE raw
    IN  IF m.g1 = <<>> THEN cut
        ELSE IF At(str, IF m.index - 1 > 0 THEN m.index - 1 ELSE 0) = "\\"
             THEN DropLast(cut)
             ELSE TrimEnd(cut)

\* the text run when CHILDREN_RE does not match (lines 209 to 212)
After(str, from, pending) ==
    IF pending THEN Slice(str, from, Len(str)) ELSE TrimEnd(Slice(str, from, Len(str)))

\* whether the value after the fragment is the tag (line 174)
TagIsValue(pending, end, len) == pending /\ end = len

\* the error of a closing marker, "" when it closes (lines 180 to 190)
ClosingError(slash, tag, stk, openTag) ==
    IF Len(stk) = 0 THEN "UnmatchedClosingTag"
    ELSE IF slash # <<"/", "/">> /\ openTag # tag THEN "MismatchedClosingTag"
    ELSE ""

OpenStackForgets(stk, cur) == stk

\* stack.push(current) (line 195)
OpenStack(stk, cur) == Append(stk, cur)

\* One iteration of the inner loop with matcher CHILDREN_RE.
ScanChildren ==
    /\ pc = "scan"
    /\ matcher = "CHILDREN_RE"
    /\ LET m == ChildrenExec(span, i)
           end == IF m.found THEN m.end ELSE Len(span)
           atEnd == end = Len(span)
           text == IF m.found
                   THEN IF i < m.index THEN Before(span, i, m, lineStart) ELSE <<>>
                   ELSE After(span, i, expressing)
           isComment == m.found /\ m.g2 # <<>>
           isTag == m.found /\ m.g2 = <<>> /\ m.g3 # <<>>
           tagIsValue == isTag /\ TagIsValue(expressing, end, Len(span))
           tag == IF tagIsValue THEN exp ELSE Str(m.g5)
           isClose == isTag /\ m.g4 # <<>>
           isOpen == isTag /\ m.g4 = <<>>
           closing == IF isClose
                      THEN ClosingError(m.g4, tag, stack, nodes[current].tag) ELSE ""
           \* expressing after the comment and the tag have been handled
           pending == expressing /\ ~(isComment /\ atEnd) /\ ~tagIsValue
           valueChild == pending /\ atEnd
           next == Len(nodes) + 1
           cur == IF isClose THEN Top(stack) ELSE IF isOpen THEN next ELSE current
           withText == AddText(nodes, current, text, <<s, i>>)
           withTag == IF isOpen
                      THEN Append(AddChild(withText, current, ElementChild(next, <<s, m.index>>)),
                                  Element(tag))
                      ELSE withText
       IN  IF closing # "" THEN Fail(closing)
           ELSE /\ nodes' = IF valueChild THEN AddChild(withTag, cur, ExpChild) ELSE withTag
                /\ current' = cur
                /\ stack' = IF isClose THEN Pop(stack)
                            ELSE IF isOpen THEN OpenStack(stack, current) ELSE stack
                /\ matcher' = IF isComment /\ atEnd THEN "CLOSING_COMMENT_RE"
                              ELSE IF isClose THEN "CLOSING_TAG_RE"
                              ELSE IF isOpen THEN "PROPS_RE" ELSE matcher
                /\ lineStart' = IF valueChild THEN FALSE
                                ELSE IF m.found THEN m.g1 # <<>> ELSE lineStart
                /\ expressing' = (pending /\ ~valueChild)
                /\ Advance(end)
                /\ UNCHANGED <<input, spans, expressions, propName, propValue, s, result>>

\* which alternative of PROPS_RE a match took
IsTagEnd(m) == m.found /\ m.g1 # <<>>

IsSpread(m) == m.found /\ m.g1 = <<>> /\ m.g2 # <<>>

IsName(m) == m.found /\ m.g1 = <<>> /\ m.g2 = <<>> /\ m.g3 # <<>>

\* name= with no quoted string after it
IsAssigned(m) == IsName(m) /\ m.g5 = <<>> /\ m.g4 # <<>>

\* a quoted string that runs to the end of the fragment, before a value
\* (line 276)
IsOpenString(m) == IsName(m) /\ m.g5 # <<>> /\ expressing /\ m.end = Len(span)

\* the error of an iteration with matcher PROPS_RE, "" when it goes on
PropsError(m) ==
    IF ~m.found
    THEN IF expressing THEN "" ELSE "UnexpectedText"
    ELSE IF i < m.index THEN "UnexpectedText"
    ELSE IF IsSpread(m)
    THEN IF expressing /\ m.end = Len(span) THEN "" ELSE "MissingSpreadExpression"
    ELSE IF IsAssigned(m)
    THEN IF m.end < Len(span) THEN "UnexpectedText"
         ELSE IF ~expressing THEN "ExpressionExpected" ELSE ""
    ELSE ""

\* the value of a prop (lines 260 to 293)
PropValueOf(m) ==
    IF m.g5 = <<>>
    THEN IF m.g4 = <<>> THEN True ELSE exp
    ELSE Str(formatString(m.g5))

\* the value after the fragment is a child: the tag ends the fragment (line 244)
IsChildAfterTag(m) == IsTagEnd(m) /\ expressing /\ m.end = Len(span)

\* current after the match: a self-closing tag pops the stack (line 240)
PropsCurrent(m) == IF IsTagEnd(m) /\ m.g1[1] = "/" THEN Top(stack) ELSE current

PropsNodes(m) ==
    IF IsChildAfterTag(m) THEN AddChild(nodes, PropsCurrent(m), ExpChild)
    ELSE IF IsSpread(m)
    THEN [nodes EXCEPT ![current].props = Spread(@, exp)]
    ELSE IF IsName(m) /\ ~IsOpenString(m)
    THEN [nodes EXCEPT ![current].props = SetProp(@, m.g3, PropValueOf(m))]
    ELSE nodes

\* One iteration of the inner loop with matcher PROPS_RE, m being the match.
PropsStep(m) ==
    IF PropsError(m) # "" THEN Fail(PropsError(m))
    ELSE /\ nodes' = PropsNodes(m)
         /\ current' = PropsCurrent(m)
         /\ stack' = IF IsTagEnd(m) /\ m.g1[1] = "/" THEN Pop(stack) ELSE stack
         /\ matcher' = IF IsTagEnd(m) THEN "CHILDREN_RE"
                       ELSE IF IsOpenString(m) THEN QuoteMatcher(m.g5[1])
                       ELSE matcher
         /\ propName' = IF IsOpenString(m) THEN m.g3 ELSE propName
         /\ propValue' = IF IsOpenString(m) THEN m.g5 \o QuotePiece(exp) ELSE propValue
         /\ expressing' = IF IsChildAfterTag(m) \/ IsSpread(m) \/ IsOpenString(m) \/ IsAssigned(m)
                          THEN FALSE ELSE expressing
         /\ Advance(IF m.found THEN m.end ELSE Len(span))
         /\ UNCHANGED <<input, spans, expressions, lineStart, s, result>>

ScanProps ==
    /\ pc = "scan"
    /\ matcher = "PROPS_RE"
    /\ PropsStep(PropsExec(span, i))

\* One iteration of the inner loop with matcher CLOSING_TAG_RE.
ScanClosingTag ==
    /\ pc = "scan"
    /\ matcher = "CLOSING_TAG_RE"
    /\ LET m == ClosingTagExec(span, i)
           end == IF m.found THEN m.end ELSE Len(span)
       IN  IF (m.found /\ i < m.index) \/ (~m.found /\ ~expressing)
           THEN Fail("UnexpectedText")
           ELSE /\ matcher' = IF m.found THEN "CHILDREN_RE" ELSE matcher
                /\ Advance(end)
                /\ UNCHANGED <<input, spans, expressions, nodes, current, stack, lineStart,
                               propName, propValue, s, expressing, result>>

\* One iteration of the inner loop with matcher CLOSING_SINGLE_QUOTE_RE or
\* CLOSING_DOUBLE_QUOTE_RE.
ScanClosingQuote ==
    /\ pc = "scan"
    /\ matcher \in QuoteMatchers
    /\ LET m == ClosingQuoteExec(span, i, IF matcher = "CLOSING_SINGLE_QUOTE_RE" THEN "'" ELSE "\"")
           end == IF m.found THEN m.end ELSE Len(span)
           taken == expressing /\ end = Len(span)
           str == propValue \o Slice(span, i, end)
                            \o (IF taken THEN QuotePieceOddballs(exp) ELSE <<>>)
       IN  /\ propValue' = str
           /\ matcher' = IF m.found THEN "PROPS_RE" ELSE matcher
           /\ expressing' = (expressing /\ ~taken)
           /\ nodes' = [nodes EXCEPT ![current].props =
                            SetProp(@, propName, Str(formatString(str)))]
           /\ Advance(end)
           /\ UNCHANGED <<input, spans, expressions, current, stack, lineStart, propName,
                          s, result>>

\* One iteration of the inner loop with matcher CLOSING_COMMENT_RE.
ScanClosingComment ==
    /\ pc = "scan"
    /\ matcher = "CLOSING_COMMENT_RE"
    /\ LET m == ClosingCommentExec(span, i)
           end == IF m.found THEN m.end ELSE Len(span)
       IN  IF ~m.found /\ ~expressing
           THEN Fail("MissingCommentTerminator")
           ELSE /\ matcher' = IF m.found THEN "CHILDREN_RE" ELSE matcher
                /\ expressing' = (expressing /\ m.found)
                /\ Advance(end)
                /\ UNCHANGED <<input, spans, expressions, nodes, current, stack, lineStart,
                               propName, propValue, s, result>>

EndSpanIgnoresValue ==
    /\ pc = "spanEnd"
    /\ s' = s + 1
    /\ pc' = IF s + 1 < Len(spans) THEN "span" ELSE "finish"
    /\ UNCHANGED <<input, spans, expressions, nodes, current, stack, matcher,
                   lineStart, propName, propValue, i, expressing, error, result>>

\* The end of the outer loop's body (lines 359 to 364), and s++.
EndSpan ==
    /\ pc = "spanEnd"
    /\ IF expressing
       THEN Fail("UnexpectedExpression")
       ELSE /\ s' = s + 1
            /\ pc' = IF s + 1 < Len(spans) THEN "span" ELSE "finish"
            /\ UNCHANGED <<input, spans, expressions, nodes, current, stack, matcher,
                           lineStart, propName, propValue, i, expressing, error, result>>

EndErrorNone(stk) == ""

\* the error at the end of the input, "" when parse returns (lines 367 to 371)
EndError(stk) == IF Len(stk) # 0 THEN "UnmatchedOpeningTag" ELSE ""

\* After the last fragment: parse throws or returns current.
Finish ==
    /\ pc = "finish"
    /\ IF EndError(stack) # ""
       THEN Fail(EndError(stack))
       ELSE /\ pc' = "returned"
            /\ UNCHANGED <<input, spans, expressions, nodes, current, stack, matcher,
                           lineStart, propName, propValue, s, i, expressing, error, result>>

----------------------------------------------------------------------------
(* template *)

\* c(tag, props, ...children) of crank.js: the element of the rendering layer
CreateElement(tag, props, children) == [tag |-> tag, props |-> props, children |-> children]

\* createElementsFromParse(parsed)
RECURSIVE createElementsFromParse(_, _)
createElementsFromParse(heap, id) ==
    CreateElement(heap[id].tag, heap[id].props,
        [k \in 1..Len(heap[id].children) |->
            IF heap[id].children[k].type = "element"
            THEN createElementsFromParse(heap, heap[id].children[k].elem)
            ELSE heap[id].children[k].value])

UnwrapsAnyOnlyChild(heap, parsed) ==
    IF Len(heap[parsed].children) = 0 THEN 0
    ELSE IF Len(heap[parsed].children) = 1 THEN heap[parsed].children[1].elem
    ELSE parsed

\* the element template builds its result from, 0 for c("") (lines 13 to 18)
Unwrap(heap, parsed) ==
    IF Len(heap[parsed].children) = 0 THEN 0
    ELSE IF Len(heap[parsed].children) = 1 /\ heap[parsed].children[1].type = "element"
         THEN heap[parsed].children[1].elem
         ELSE parsed

\* template, after parse has returned
Template ==
    /\ pc = "returned"
    /\ result' = IF Unwrap(nodes, current) = 0
                 THEN <<CreateElement(Str(<<>>), Null, <<>>)>>
                 ELSE <<createElementsFromParse(nodes, Unwrap(nodes, current))>>
    /\ pc' = "done"
    /\ UNCHANGED <<input, spans, expressions, nodes, current, stack, matcher, lineStart,
                   propName, propValue, s, i, expressing, error>>

----------------------------------------------------------------------------
(* The inputs.  A template literal is written as a sequence of pieces, each *)
(* a text followed or not by a substitution value; spans and expressions    *)
(* are what the language hands to template for it.                          *)

Text(txt) == [txt |-> txt, hole |-> FALSE, val |-> Null]

Hole(txt, val) == [txt |-> txt, hole |-> TRUE, val |-> val]

RECURSIVE SpansOf(_)
SpansOf(pieces) ==
    IF Len(pieces) = 0 THEN <<<<>>>>
    ELSE LET rest == SpansOf(Tail(pieces))
         IN  IF Head(pieces).hole
             THEN <<Head(pieces).txt>> \o rest
             ELSE <<Head(pieces).txt \o Head(rest)>> \o Tail(rest)

RECURSIVE ExpressionsOf(_)
ExpressionsOf(pieces) ==
    IF Len(pieces) = 0 THEN <<>>
    ELSE (IF Head(pieces).hole THEN <<Head(pieces).val>> ELSE <<>>)
            \o ExpressionsOf(Tail(pieces))

MaxTagPieces == 4
MaxTagValuePieces == 4
MaxCommentPieces == 5
MaxAttrItems == 3
MaxClosingPieces == 4
MaxLinePieces == 3
MaxQuotePieces == 3

V1 == Str(<<"v">>)
Comp == Func(<<"C">>)
Attrs == Obj(<< <<<<"a">>, Str(<<"s">>)>>, <<<<"c">>, True>> >>)

TagPieces ==
    {Text(<<"<", "a", ">">>), Text(<<"<", "a", "/", ">">>),
     Text(<<"<", "/", "a", ">">>), Text(<<"<", "/", "b", ">">>),
     Text(<<"<", "/", "/", ">">>), Text(<<"x">>), Hole(<<>>, V1)}

TagValuePieces ==
    {Hole(<<"<">>, Comp), Hole(<<"<", "a">>, Str(<<"b">>)),
     Hole(<<"<", "/">>, Comp), Hole(<<"<", "/", "a">>, Str(<<"b">>)),
     Text(<<">">>), Text(<<"<", "a", ">">>), Text(<<"<", "/", "b", ">">>)}

CommentPieces ==
    {Text(<<"<", "!", "-", "-">>), Text(<<"-", "-", ">">>), Text(<<"x">>), Hole(<<>>, V1)}

\* the attribute items, each with the writes it stands for
AttrItems ==
    {[pieces |-> <<Text(<<" ", "a">>)>>, writes |-> << <<<<"a">>, True>> >>],
     [pieces |-> <<Text(<<" ", "a", "=", "\"", "1", "\"">>)>>,
      writes |-> << <<<<"a">>, Str(<<"1">>)>> >>],
     [pieces |-> <<Text(<<" ", "b", "=", "'", "\\", "'", "2", "'">>)>>,
      writes |-> << <<<<"b">>, Str(<<"'", "2">>)>> >>],
     [pieces |-> <<Hole(<<" ", "b", "=", "\"", "u">>, V1), Text(<<"w", "\"">>)>>,
      writes |-> << <<<<"b">>, Str(<<"u", "v", "w">>)>> >>],
     [pieces |-> <<Hole(<<" ", "c", "=">>, V1)>>, writes |-> << <<<<"c">>, V1>> >>],
     [pieces |-> <<Hole(<<" ", ".", ".", ".">>, Attrs)>>, writes |-> Attrs.obj]}

\* what follows <a> in the inputs about the tail of a closing tag
ClosingPieces ==
    {Text(<<"<", "/", "a">>), Text(<<" ">>), Text(<<">">>), Text(<<"x">>)}

\* text with leading whitespace, a newline, a tag and a value
LinePieces ==
    {Text(<<" ", "x">>), Text(<<"\n", " ">>), Text(<<"<", "a", "/", ">">>), Hole(<<>>, V1)}

\* what follows <x b=" in the inputs about quoted prop values
QuotePieces ==
    {Text(<<"\\", "\"">>), Text(<<"u", "\"">>), Hole(<<>>, V1), Hole(<<>>, True),
     Hole(<<"w">>, True)}

RECURSIVE Flatten(_)
Flatten(seqs) == IF Len(seqs) = 0 THEN <<>> ELSE Head(seqs) \o Flatten(Tail(seqs))

PieceInput(family, pieces) == [family |-> family, pieces |-> pieces, items |-> <<>>]

AttrInput(items) ==
    [family |-> "attrs",
     pieces |-> <<Text(<<"<", "x">>)>> \o Flatten([k \in 1..Len(items) |-> items[k].pieces])
                    \o <<Text(<<"/", ">">>)>>,
     items |-> items]

\* the template literals explored: sequences of at most Max... pieces of a family
InitInput ==
    \/ \E k \in 0..MaxTagPieces : \E p \in [1..k -> TagPieces] :
            input = PieceInput("tags", p)
    \/ \E k \in 0..MaxTagValuePieces : \E p \in [1..k -> TagValuePieces] :
            input = PieceInput("tagvalues", p)
    \/ \E k \in 0..MaxCommentPieces : \E p \in [1..k -> CommentPieces] :
            input = PieceInput("comments", p)
    \/ \E k \in 0..MaxAttrItems : \E it \in [1..k -> AttrItems] :
            input = AttrInput(it)
    \/ \E k \in 0..MaxClosingPieces : \E p \in [1..k -> ClosingPieces] :
            input = PieceInput("closing", <<Text(<<"<", "a", ">">>)>> \o p)
    \/ \E k \in 0..MaxLinePieces : \E p \in [1..k -> LinePieces] :
            input = PieceInput("lines", p)
    \/ \E k \in 0..MaxQuotePieces : \E p \in [1..k -> QuotePieces] :
            input = PieceInput("quotes", <<Text(<<"<", "x", " ", "b", "=", "\"">>)>> \o p
                                            \o <<Text(<<"/", ">">>)>>)

----------------------------------------------------------------------------

Init ==
    /\ InitInput
    /\ spans = SpansOf(input.pieces)
    /\ expressions = ExpressionsOf(input.pieces)
    /\ nodes = <<Element(Str(<<>>))>>
    /\ current = 1
    /\ stack = <<>>
    /\ matcher = "CHILDREN_RE"
    /\ lineStart = TRUE
    /\ propName = <<>>
    /\ propValue = <<>>
    /\ s = 0
    /\ i = 0
    /\ expressing = FALSE
    /\ pc = "span"
    /\ error = ""
    /\ result = <<>>

Next ==
    \/ BeginSpan
    \/ ScanChildren
    \/ ScanProps
    \/ ScanClosingTag
    \/ ScanClosingQuote
    \/ ScanClosingComment
    \/ EndSpan
    \/ Finish
    \/ Template

Spec == Init /\ [][Next]_vars

----------------------------------------------------------------------------
(* What the properties read off a state *)

\* the parse has not thrown
Running == pc # "failed"

\* an iteration of the inner loop with CHILDREN_RE is about to match a tag marker
AtTagMarker ==
    /\ pc = "scan"
    /\ matcher = "CHILDREN_RE"
    /\ ChildrenExec(span, i).found
    /\ ChildrenExec(span, i).g2 = <<>>
    /\ ChildrenExec(span, i).g3 # <<>>

AtClosingMarker == AtTagMarker /\ ChildrenExec(span, i).g4 # <<>>

AtOpeningMarker == AtTagMarker /\ ChildrenExec(span, i).g4 = <<>>

\* a value follows the fragment and has not been consumed, and the match about
\* to be made ends the fragment
ValueAfter(m) == expressing /\ m.found /\ m.end = Len(span)

\* the tag identifier of a tag marker as the specification has it: the
\* identifier captured from the text, and the pending value for a bare marker
MarkerIdentifier(m) ==
    IF m.g5 # <<>> THEN Str(m.g5)
    ELSE IF ValueAfter(m) THEN exp
    ELSE Str(<<>>)

\* the last child of an element of the heap is the value after the fragment
LastChildIsValue(heap, id) ==
    /\ id \in 1..Len(heap)
    /\ Len(heap[id].children) > 0
    /\ heap[id].children[Len(heap[id].children)] = ExpChild

\* element c is a child of element p
IsChildOf(heap, c, p) ==
    \E k \in 1..Len(heap[p].children) :
        heap[p].children[k].type = "element" /\ heap[p].children[k].elem = c

\* the depth of an element below the root wrapper (element 1), read off the tree
RECURSIVE Depth(_, _)
Depth(heap, id) ==
    IF id = 1 \/ ~(\E p \in 1..Len(heap) : IsChildOf(heap, id, p)) THEN 0
    ELSE 1 + Depth(heap, CHOOSE p \in 1..Len(heap) : IsChildOf(heap, id, p))

\* the index in input.pieces of the piece that holds substitution value number h
HolePiece(h) ==
    CHOOSE k \in 1..Len(input.pieces) :
        /\ input.pieces[k].hole
        /\ Cardinality({j \in 1..k : input.pieces[j].hole}) = h

----------------------------------------------------------------------------
(* C1 *)

\* C1: at a closing marker scanned in Children mode: with an empty stack the
\* parse fails with UnmatchedClosingTag; else, when the marker is single-slash
\* and its tag identifier differs from the tag of the innermost open element,
\* it fails with MismatchedClosingTag; else the innermost open element, and it
\* alone, is closed: the stack loses its top, which becomes current.
C1_ClosingMarker ==
    [][AtClosingMarker =>
        IF Len(stack) = 0
        THEN pc' = "failed" /\ error' = "UnmatchedClosingTag"
        ELSE IF /\ ChildrenExec(span, i).g4 = <<"/">>
                /\ MarkerIdentifier(ChildrenExec(span, i)) # nodes[current].tag
        THEN pc' = "failed" /\ error' = "MismatchedClosingTag"
        ELSE /\ pc' # "failed"
             /\ stack' = Pop(stack)
             /\ current' = Top(stack)
             /\ Len(stack') = Len(stack) - 1]_vars

----------------------------------------------------------------------------
(* C2 *)

\* C2: parse returns a tree only with an empty stack: after the last fragment,
\* a non-empty stack makes it fail with UnmatchedOpeningTag, nothing is
\* returned, and whenever parse has returned the stack is empty.
C2_TreeOnlyIfStackEmpty ==
    [][/\ (pc = "finish" /\ Len(stack) > 0) =>
            (pc' = "failed" /\ error' = "UnmatchedOpeningTag" /\ result' = <<>>)
       /\ (pc' \in {"returned", "done"}) => Len(stack') = 0
       /\ (pc' = "failed") => result' = <<>>]_vars

C2_Witness == pc = "failed" /\ error = "UnmatchedOpeningTag" /\ Len(stack) = 2

----------------------------------------------------------------------------
(* C3 *)

\* the stack is the chain of the open elements: it starts at the root wrapper,
\* each entry is the parent of the next, its top is the parent of current, and
\* current is the last child of its parent
StackIsChain(heap, stk, cur) ==
    /\ Len(stk) = Depth(heap, cur)
    /\ (Len(stk) = 0) <=> (cur = 1)
    /\ Len(stk) > 0 => stk[1] = 1
    /\ \A k \in 1..(Len(stk) - 1) : IsChildOf(heap, stk[k + 1], stk[k])
    /\ Len(stk) > 0 =>
        /\ Len(heap[Top(stk)].children) > 0
        /\ heap[Top(stk)].children[Len(heap[Top(stk)].children)].type = "element"
        /\ heap[Top(stk)].children[Len(heap[Top(stk)].children)].elem = cur

\* by how much a step that does not throw changes the depth
DepthChange ==
    IF AtOpeningMarker THEN 1
    ELSE IF AtClosingMarker THEN -1
    ELSE IF /\ pc = "scan"
            /\ matcher = "PROPS_RE"
            /\ PropsExec(span, i).found
            /\ PropsExec(span, i).g1 # <<>>
            /\ PropsExec(span, i).g1[1] = "/"
    THEN -1
    ELSE 0

\* C3: at every point of a parse the stack mirrors the tree: its length is the
\* depth of current below the root wrapper and it is the chain of parents of
\* current; an opening tag adds one to the depth, a self-closing "/>" or a
\* closing marker takes one off, and no other step changes it.
C3_StackMirrorsTree ==
    [][Running' =>
        /\ StackIsChain(nodes', stack', current')
        /\ Len(stack') = Len(stack) + DepthChange]_vars

C3_Witness ==
    /\ Running
    /\ Len(stack) = 1
    /\ Len(nodes) = 3
    /\ current = 2
    /\ IsChildOf(nodes, 3, 2)

----------------------------------------------------------------------------
(* C4 *)

ClosingTagPieces ==
    {Text(<<"<", "/", "a", ">">>), Text(<<"<", "/", "b", ">">>), Text(<<"<", "/", "/", ">">>)}

\* the fragment being processed ends with the ">" of a closing tag, and a
\* substitution value follows it
ValueFollowsClosingTag ==
    /\ input.family = "tags"
    /\ s < Len(expressions)
    /\ HolePiece(s + 1) > 1
    /\ input.pieces[HolePiece(s + 1)].txt = <<>>
    /\ input.pieces[HolePiece(s + 1) - 1] \in ClosingTagPieces

\* C4: a substitution value that immediately follows the ">" of a closing tag
\* is appended as a child Value node of the element that is current after the
\* close, and the parse does not fail because of that value.
C4_ValueAfterClosingTag ==
    ValueFollowsClosingTag =>
        /\ (pc = "failed" => error # "UnexpectedExpression")
        /\ (pc = "spanEnd" => LastChildIsValue(nodes, current))

----------------------------------------------------------------------------
(* C5 *)

\* a place <<fragment, offset>> of the input is before another
Before2(a, b) == a[1] < b[1] \/ (a[1] = b[1] /\ a[2] < b[2])

\* the child stands for a substitution value: it was read at the end of a fragment
IsSubstitution(child) ==
    child.type = "value" /\ child.src[2] = Len(spans[child.src[1] + 1])

\* the children of the heap, as <<element, position>>
ChildPlaces(heap) ==
    {pl \in (1..Len(heap)) \X (1..4 * Len(input.pieces) + 4) : pl[2] <= Len(heap[pl[1]].children)}

InInputOrder(heap) ==
    /\ \A id \in 1..Len(heap) :
          \A j, k \in 1..Len(heap[id].children) :
              j < k => Before2(heap[id].children[j].src, heap[id].children[k].src)
    /\ \A p, q \in ChildPlaces(heap) :
          (/\ p # q
           /\ IsSubstitution(heap[p[1]].children[p[2]])
           /\ IsSubstitution(heap[q[1]].children[q[2]]))
          => heap[p[1]].children[p[2]].src # heap[q[1]].children[q[2]].src

AppendOnly(old, new) ==
    /\ Len(new) >= Len(old)
    /\ \A id \in 1..Len(old) :
          /\ Len(new[id].children) >= Len(old[id].children)
          /\ SubSeq(new[id].children, 1, Len(old[id].children)) = old[id].children

\* C5: the children of every element are in input order: a step only appends
\* children, of any two children of an element the one read earlier in
\* F0 V0 F1 V1 ... comes first, and no substitution value is a child twice.
C5_ChildrenInInputOrder ==
    [][AppendOnly(nodes, nodes') /\ InInputOrder(nodes')]_vars

C5_Witness ==
    /\ pc = "done"
    /\ \E id \in 1..Len(nodes) :
          /\ Len(nodes[id].children) >= 3
          /\ \E j, k, l \in 1..Len(nodes[id].children) :
                /\ j < k /\ k < l
                /\ IsSubstitution(nodes[id].children[j])
                /\ nodes[id].children[k].type = "element"
                /\ nodes[id].children[l].type = "value"
                /\ ~IsSubstitution(nodes[id].children[l])

----------------------------------------------------------------------------
(* C6 *)

\* the writes of the attribute items of the input, in source order
Writes == Flatten([k \in 1..Len(input.items) |-> input.items[k].writes])

\* the last write to a key
LastWrite(writes, key) ==
    writes[CHOOSE k \in 1..Len(writes) :
              /\ writes[k][1] = key
              /\ \A j \in (k + 1)..Len(writes) : writes[j][1] # key][2]

\* C6: the props of an element are the left-to-right fold of its attribute
\* items: the keys are those some item writes, and the value of a key is the
\* one written by the last item in source order that writes it.
C6_PropsAreFoldOfItems ==
    (input.family = "attrs" /\ pc \in {"returned", "done", "failed"}) =>
        /\ pc # "failed"
        /\ Len(nodes) = 2
        /\ \A k \in 1..Len(Writes) : HasKey(OwnPairs(nodes[2].props), Writes[k][1])
        /\ \A k \in 1..Len(OwnPairs(nodes[2].props)) :
              /\ \E j \in 1..Len(Writes) : Writes[j][1] = OwnPairs(nodes[2].props)[k][1]
              /\ OwnPairs(nodes[2].props)[k][2] =
                    LastWrite(Writes, OwnPairs(nodes[2].props)[k][1])

\* a flag a, then a spread that writes a again, then a="1"
C6_Witness ==
    /\ input.family = "attrs"
    /\ pc = "done"
    /\ Len(input.items) = 3
    /\ input.items[1].writes = << <<<<"a">>, True>> >>
    /\ input.items[2].writes = Attrs.obj
    /\ input.items[3].writes = << <<<<"b">>, Str(<<"u", "v", "w">>)>> >>
    /\ Get(OwnPairs(nodes[2].props), <<"a">>) = Str(<<"s">>)

----------------------------------------------------------------------------
(* C7 *)

\* a comment matched by CHILDREN_RE ends with its terminator
CommentEnds(str) ==
    Len(str) >= 7 /\ SubSeq(str, Len(str) - 2, Len(str)) = <<"-", "-", ">">>

TerminatorEnd ==
    IF matcher = "CHILDREN_RE" THEN ChildrenExec(span, i).end
    ELSE ClosingCommentExec(span, i).end

\* The step about to be made scans the "-->" that ends a comment: in Children
\* mode a comment matched with its terminator, in ClosingComment mode a match.
\* A terminator that ends the whole input is left out: nothing is scanned
\* after it.
AtCommentTerminator ==
    /\ pc = "scan"
    /\ \/ matcher = "CHILDREN_RE" /\ CommentEnds(ChildrenExec(span, i).g2)
       \/ matcher = "CLOSING_COMMENT_RE" /\ ClosingCommentExec(span, i).found
    /\ (s < Len(spans) - 1 \/ TerminatorEnd < Len(span))

\* C7: once the "-->" of a comment has been scanned the scanner is in Children
\* mode, also when "-->" ends its fragment; a substitution value that
\* immediately follows "-->" is appended as a child Value node.
C7_ChildrenModeAfterComment ==
    [][AtCommentTerminator =>
        /\ matcher' = "CHILDREN_RE"
        /\ (expressing /\ TerminatorEnd = Len(span)) =>
              (Running' /\ ~expressing' /\ LastChildIsValue(nodes', current'))]_vars

----------------------------------------------------------------------------
(* C8 *)

CommentOpener == Text(<<"<", "!", "-", "-">>)

CommentCloser == Text(<<"-", "-", ">">>)

\* The input is a comment that is never closed, with nothing before it: how
\* many substitution values stand inside it.  (The inputs with two or more
\* values in the comment, or with a closed comment before it, are left to the
\* properties about those.)
OpenCommentOnly ==
    /\ input.family = "comments"
    /\ Len(input.pieces) >= 1
    /\ input.pieces[1] = CommentOpener
    /\ \A k \in 1..Len(input.pieces) : input.pieces[k] # CommentCloser
    /\ Len(expressions) <= 1

\* C8: an unterminated comment at the end of the input is tolerated, the
\* parse succeeding with no child for the comment, when no substitution value
\* occurred inside it, and the parse fails with MissingCommentTerminator when
\* one did and no "-->" follows it.
C8_UnterminatedComment ==
    (OpenCommentOnly /\ pc \in {"returned", "failed"}) =>
        IF Len(expressions) = 0
        THEN pc = "returned" /\ nodes[1].children = <<>>
        ELSE pc = "failed" /\ error = "MissingCommentTerminator"

----------------------------------------------------------------------------
(* C9 *)

\* the root wrapper, as a tree
Wrapper == createElementsFromParse(nodes, 1)

\* C9: the result of template: the empty element when the root wrapper has no
\* children; its only child when that child is an element; else the wrapper,
\* with the empty tag and all its children in order.
C9_PostProcessing ==
    pc = "done" =>
        /\ Len(result) = 1
        /\ IF Len(nodes[1].children) = 0
           THEN result[1] = CreateElement(Str(<<>>), Null, <<>>)
           ELSE IF Len(nodes[1].children) = 1 /\ nodes[1].children[1].type = "element"
           THEN /\ result[1] = Wrapper.children[1]
                /\ result[1].tag = nodes[nodes[1].children[1].elem].tag
           ELSE /\ result[1].tag = Str(<<>>)
                /\ result[1].children = Wrapper.children
                /\ Len(result[1].children) = Len(nodes[1].children)

C9_Witness ==
    /\ pc = "done"
    /\ Len(nodes[1].children) = 1
    /\ nodes[1].children[1].type = "element"
    /\ result[1].tag = Str(<<"a">>)
    /\ Len(result[1].children) = 2

----------------------------------------------------------------------------
(* C10 *)

\* C10: the tag identifier of an opening or closing tag is the identifier
\* captured from the text whenever it is not empty, and the pending value only
\* for a bare marker that ends its fragment: an opening tag creates an element
\* with that tag, a single-slash closing tag of an open element fails as
\* mismatched exactly when that identifier differs from the open tag.
C10_TagIdentifier ==
    [][/\ (AtOpeningMarker /\ Running') =>
            nodes'[current'].tag = MarkerIdentifier(ChildrenExec(span, i))
       /\ (AtClosingMarker /\ Len(stack) > 0 /\ ChildrenExec(span, i).g4 = <<"/">>) =>
            ((pc' = "failed") <=>
                (MarkerIdentifier(ChildrenExec(span, i)) # nodes[current].tag))]_vars

----------------------------------------------------------------------------
(* C11 *)

\* an iteration of the inner loop with CLOSING_TAG_RE is about to run
AtClosingTagTail == pc = "scan" /\ matcher = "CLOSING_TAG_RE"

\* the text of the fragment from the scan position to its first ">", or to
\* its end, is whitespace
BlankBeforeTagEnd ==
    \A p \in i..((IF ClosingTagExec(span, i).found
                  THEN ClosingTagExec(span, i).index ELSE Len(span)) - 1) :
        At(span, p) \in Whitespace

\* C11: after the identifier of a closing tag, whitespace before the ">" is
\* consumed without error and the ">" brings the scanner back to Children
\* mode; before a ">" the parse fails only with UnexpectedText, and only when
\* something other than whitespace stands before the ">".
C11_ClosingTagTail ==
    [][AtClosingTagTail =>
        /\ (ClosingTagExec(span, i).found /\ BlankBeforeTagEnd) =>
                (pc' # "failed" /\ matcher' = "CHILDREN_RE")
        /\ (ClosingTagExec(span, i).found /\ pc' = "failed") =>
                (error' = "UnexpectedText" /\ ~BlankBeforeTagEnd)]_vars

----------------------------------------------------------------------------
(* C12 *)

\* the scanner is in ClosingComment mode in the step of a fragment that is
\* followed by a value and holds no "-->" from the scan position on: the
\* value stands inside the comment
ValueInsideComment ==
    /\ pc \in {"span", "scan", "spanEnd"}
    /\ matcher = "CLOSING_COMMENT_RE"
    /\ s < Len(expressions)
    /\ ~ClosingCommentExec(span, IF pc = "span" THEN 0 ELSE i).found

\* C12: in ClosingComment mode a value before the "-->" is discarded: the step
\* of its fragment does not fail and adds no child, also when the fragment
\* before the value is empty (the value directly follows another value).
C12_ValuesInCommentDiscarded ==
    [][ValueInsideComment => (pc' # "failed" /\ nodes' = nodes)]_vars

----------------------------------------------------------------------------
(* C13 *)

\* the step appends a text run to current: the child read at the scan position
TextAppended(k) ==
    /\ k > Len(nodes[current].children)
    /\ k <= Len(nodes'[current].children)
    /\ nodes'[current].children[k].type = "value"
    /\ nodes'[current].children[k].src = <<s, i>>
    /\ i < Len(span)

\* C13: a text run appended as a child while lineStart is true does not begin
\* with whitespace, whether a marker or the end of the fragment ends the run.
C13_LineStartTrimmed ==
    [][(pc = "scan" /\ matcher = "CHILDREN_RE" /\ lineStart /\ pc' # "failed") =>
        \A k \in 1..Len(nodes'[current].children) :
            TextAppended(k) =>
                nodes'[current].children[k].value.str[1] \notin Whitespace]_vars

----------------------------------------------------------------------------
(* C14 *)

\* the step appends the value that follows the fragment as a child of an element
ValueAppended ==
    /\ pc \in {"span", "scan"}
    /\ pc' # "failed"
    /\ \E id \in 1..Len(nodes) :
          /\ Len(nodes'[id].children) > Len(nodes[id].children)
          /\ LastChildIsValue(nodes', id)

\* C14: after a value is appended as a child, lineStart is false, on every
\* path that appends a value, the one of an empty fragment included.
C14_ValueClearsLineStart ==
    [][ValueAppended => lineStart' = FALSE]_vars

----------------------------------------------------------------------------
(* C15 *)

\* the quote character of the matcher of a quoted prop value
QuoteOf(m) == IF m = "CLOSING_SINGLE_QUOTE_RE" THEN "'" ELSE "\""

\* an iteration with PROPS_RE is about to match a prop with a quoted string
AtPropString ==
    /\ pc = "scan"
    /\ matcher = "PROPS_RE"
    /\ IsName(PropsExec(span, i))
    /\ PropsExec(span, i).g5 # <<>>

\* an iteration with a closing quote matcher is about to match a quote
AtClosingQuote ==
    /\ pc = "scan"
    /\ matcher \in QuoteMatchers
    /\ ClosingQuoteExec(span, i, QuoteOf(matcher)).found

\* in the text str of a string that starts with its opening quote, every
\* quote character after the first is escaped, or is the last character
OnlyLastQuoteCloses(str) ==
    \A k \in 2..Len(str) :
        str[k] = str[1] => (str[k - 1] = "\\" \/ (k = Len(str) /\ str[k - 1] # "\\"))

\* C15: a quote character right after a backslash does not close a quoted
\* prop value: the string matched in Props mode holds no unescaped quote
\* before its end, and the quote that closes the string in ClosingQuote mode
\* is not preceded by a backslash.
C15_EscapedQuoteDoesNotClose ==
    [][/\ AtPropString => OnlyLastQuoteCloses(PropsExec(span, i).g5)
       /\ AtClosingQuote =>
            At(span, ClosingQuoteExec(span, i, QuoteOf(matcher)).end - 2) # "\\"]_vars

----------------------------------------------------------------------------
(* C16 *)

\* what a value adds to a quoted string by the one rule of the specification
StringPiece(v) == IF v = Null THEN <<>> ELSE StringOf(v)

\* the text ends with the quote that closes the string it belongs to
EndsWithClosingQuote(str, quote) ==
    /\ Len(str) >= 1
    /\ str[Len(str)] = quote
    /\ (Len(str) = 1 \/ str[Len(str) - 1] # "\\")

\* a value follows an empty fragment inside a quoted string
ValueAfterValueInString ==
    pc = "span" /\ matcher \in QuoteMatchers /\ s < Len(expressions) /\ span = <<>>

\* a value follows the text that opens a quoted string, still open
ValueFirstInString ==
    /\ AtPropString
    /\ expressing
    /\ PropsExec(span, i).end = Len(span)
    /\ ~EndsWithClosingQuote(Tail(PropsExec(span, i).g5), PropsExec(span, i).g5[1])

\* a value follows text inside a quoted string that the text does not close
ValueLaterInString ==
    /\ pc = "scan"
    /\ matcher \in QuoteMatchers
    /\ expressing
    /\ ~ClosingQuoteExec(span, i, QuoteOf(matcher)).found

\* C16: a value embedded in a quoted prop value is concatenated by one rule
\* wherever it stands, first in the string, after text or after another
\* value: null adds nothing, any other value, a boolean too, adds String(value).
C16_ValuesInStringsConcatenated ==
    [][/\ ValueAfterValueInString => propValue' = propValue \o StringPiece(exp)
       /\ ValueFirstInString =>
            propValue' = PropsExec(span, i).g5 \o StringPiece(exp)
       /\ ValueLaterInString =>
            propValue' = propValue \o Slice(span, i, Len(span)) \o StringPiece(exp)]_vars

----------------------------------------------------------------------------
(* C17 *)

\* a quoted string matched in Props mode is closed by its quote at the end of
\* the fragment, and a value follows
ClosedStringBeforeValue ==
    /\ AtPropString
    /\ i = PropsExec(span, i).index
    /\ expressing
    /\ PropsExec(span, i).end = Len(span)
    /\ EndsWithClosingQuote(Tail(PropsExec(span, i).g5), PropsExec(span, i).g5[1])

\* the props of current hold the key with the value
HasProp(heap, id, key, value) ==
    /\ HasKey(OwnPairs(heap[id].props), key)
    /\ Get(OwnPairs(heap[id].props), key) = value

\* C17: ClosingQuote mode is entered only from a string left open at the end
\* of its fragment; when the closing quote ends the fragment and a value
\* follows, the prop is the unescaped text between the quotes, the value is
\* not taken into it, and the parse fails with UnexpectedExpression.
C17_ValueAfterClosingQuote ==
    [][/\ (matcher = "PROPS_RE" /\ matcher' \in QuoteMatchers) =>
            ~EndsWithClosingQuote(Tail(PropsExec(span, i).g5), PropsExec(span, i).g5[1])
       /\ ClosedStringBeforeValue =>
            /\ matcher' = "PROPS_RE"
            /\ HasProp(nodes', current, PropsExec(span, i).g3,
                       Str(formatString(PropsExec(span, i).g5)))
            /\ expressing'
       /\ (pc = "spanEnd" /\ expressing) =>
            (pc' = "failed" /\ error' = "UnexpectedExpression")]_vars

----------------------------------------------------------------------------
(* C18 *)

\* C18: when parse returns a tree the scanner is in Children or ClosingComment
\* mode: no parse succeeds in Props, ClosingQuote or ClosingTagTail mode, so a
\* closing tag without its ">" at the end of the input yields no tree.
C18_ModeAtReturn ==
    pc \in {"returned", "done"} => matcher \in {"CHILDREN_RE", "CLOSING_COMMENT_RE"}

----------------------------------------------------------------------------
(* C19 *)

\* the value that follows the fragment of the step is pending: not yet consumed
Pending == IF pc = "span" THEN s < Len(expressions) ELSE (pc \in {"scan", "spanEnd"} /\ expressing)

\* the children the step appends that stand for substitution values
NewSubstitutions ==
    {pl \in ChildPlaces(nodes') :
        /\ (pl[1] > Len(nodes) \/ pl[2] > Len(nodes[pl[1]].children))
        /\ IsSubstitution(nodes'[pl[1]].children[pl[2]])}

\* C19: the value V[s] that follows fragment s is consumed once, in the step
\* of fragment s, or the parse fails: a value still pending at the end of its
\* step makes the parse fail with UnexpectedExpression and a consumed one lets
\* the step end; a consumed value is not pending again; a value appended as a
\* child is the pending value of the step, appended once and then consumed.
C19_ValueConsumedInItsStep ==
    [][/\ (pc = "spanEnd" /\ expressing) =>
            (pc' = "failed" /\ error' = "UnexpectedExpression")
       /\ (pc = "spanEnd" /\ ~expressing) => (pc' \in {"span", "finish"} /\ s' = s + 1)
       /\ (pc \in {"scan", "spanEnd"} /\ ~expressing) => ~expressing'
       /\ (pc \in {"span", "scan"} /\ pc \in {"span", "scan"}') => s' = s
       /\ (NewSubstitutions # {}) =>
            /\ Pending
            /\ ~expressing'
            /\ Cardinality(NewSubstitutions) = 1
            /\ \A pl \in NewSubstitutions : nodes'[pl[1]].children[pl[2]] = ExpChild]_vars

\* a parse that returned after it consumed a value as a piece of a quoted
\* string and another as a spread
C19_Witness ==
    /\ pc = "done"
    /\ Len(expressions) >= 2
    /\ \E id \in 1..Len(nodes) :
          /\ HasProp(nodes, id, <<"b">>, Str(<<"u", "v", "w">>))
          /\ HasProp(nodes, id, <<"a">>, Str(<<"s">>))

----------------------------------------------------------------------------
(* C20 *)

\* what is left to do, ordered lexicographically: the fragments not yet
\* finished, the position in the step of a fragment, the characters not yet
\* scanned
Rank ==
    IF pc = "span" THEN <<Len(spans) - s, 2, 0>>
    ELSE IF pc = "scan" THEN <<Len(spans) - s, 1, Len(span) - i>>
    ELSE IF pc = "spanEnd" THEN <<Len(spans) - s, 0, 0>>
    ELSE IF pc = "finish" THEN <<0, 3, 0>>
    ELSE IF pc = "returned" THEN <<0, 2, 0>>
    ELSE <<0, 0, 0>>

LexLess(a, b) ==
    \/ a[1] < b[1]
    \/ a[1] = b[1] /\ a[2] < b[2]
    \/ a[1] = b[1] /\ a[2] = b[2] /\ a[3] < b[3]

\* C20: parse terminates: an iteration of the inner loop moves the scan
\* position strictly forward and not past the end of the fragment, every step
\* lowers the rank, whose components never go below zero.
C20_Terminates ==
    [][/\ (pc = "scan" /\ pc' # "failed") => (i' > i /\ i' <= Len(span))
       /\ LexLess(Rank', Rank)
       /\ \A k \in 1..3 : Rank'[k] >= 0]_vars

\* a parse that returned after several iterations over a fragment and more
\* than one fragment
C20_Witness ==
    /\ pc = "done"
    /\ Len(spans) >= 2
    /\ Len(spans[1]) >= 8
    /\ Len(nodes) >= 3

====
